---- MODULE Spec2Model ----
(***************************************************************************)
(* Backend launcher of the desktop shell (apps/desktop/src-tauri/main.rs). *)
(* The setup hook resolves <resource_dir>/bin/lcai_api.exe, spawns it with *)
(* two environment variables and stores the Option<Child> in the Shell's   *)
(* managed state as BackendChild; BackendChild::drop kills the child when  *)
(* the managed state is torn down.  The Shell (event loop, window events,  *)
(* exit, teardown of the managed state), the filesystem, the OS process    *)
(* table and the backend process are the environment.                      *)
(***************************************************************************)
EXTENDS Naturals, Sequences, FiniteSets

VARIABLES
    pc,              \* "NotStarted" | "Running" | "Aborted" | "Finalizing" | "Terminated"
    resource_dir,    \* Option<PathBuf> answered by app.path().resource_dir(): {} or {dir}
    files,           \* the paths that exist on the filesystem
    managed,         \* the Shell's managed state: <<>> or <<BackendChild.0>>, an Option<Child>
    procs,           \* every child process the OS created: [pid, exe, env]
    alive,           \* the pids still running
    spawn_calls,     \* the calls of Command::spawn made so far: [exe, env, result]
    kill_calls,      \* the calls of Child::kill made so far: [pid, was_alive, result]
    stderr,          \* what was written to stderr: [msg, path]
    delivered,       \* the window events handed to on_window_event so far
    setup_result,    \* "Pending" | "Ok" | "Panic"
    teardown_result, \* "Pending" | "Ok" | "Panic"
    drops,           \* how many times BackendChild::drop has run
    exit_cause       \* "none" | "normal_exit" | "window_close"

vars == <<pc, resource_dir, files, managed, procs, alive, spawn_calls, kill_calls,
          stderr, delivered, setup_result, teardown_result, drops, exit_cause>>

----------------------------------------------------------------------------
(* Bounds of the model *)

MaxPid == 2

MaxWindowEvents == 2

----------------------------------------------------------------------------
(* The environment's value spaces *)

\* Option<T> as a set with at most one element
None == {}

Some(x) == {x}

Pids == 1 .. MaxPid

\* the resource directories the host may answer with (paths are component lists)
Dirs == { <<"app", "resources">>, <<"opt", "caseai">> }

\* the paths that may or may not exist: the expected place of the executable in
\* each directory, the executable one level too high, and the relative path
CandidatePaths ==
    { d \o <<"bin", "lcai_api.exe">> : d \in Dirs }
        \cup { d \o <<"lcai_api.exe">> : d \in Dirs }
        \cup { <<"bin", "lcai_api.exe">> }

\* what the OS answers to Command::spawn: Err (None after .ok()) or a new child
OsOutcomes == { None } \cup { Some(p) : p \in Pids }

WindowEvents == { "Resized", "Focused", "CloseRequested", "Destroyed" }

KillResults == { "Ok", "Err" }

----------------------------------------------------------------------------
(* main.rs *)

\* BackendEnv with the port mistyped
BackendEnv_wrong_port ==
    [ LCAI_PORT |-> "8788", LCAI_JWT_SECRET |-> "CHANGE_ME_DEV_ONLY" ]

\* lines 22-23: the environment of the child
BackendEnv == [ LCAI_PORT |-> "8787", LCAI_JWT_SECRET |-> "CHANGE_ME_DEV_ONLY" ]

\* backend_exe_path with unwrap_or_default() in place of expect(): an
\* unresolvable resource directory falls back to the relative path
backend_exe_path_or_default(rd) ==
    LET d == IF rd = None THEN <<>> ELSE CHOOSE x \in rd : TRUE
    IN  [ panicked |-> FALSE, path |-> (d \o <<"bin">>) \o <<"lcai_api.exe">> ]

\* lines 7-10: expect() panics on an unresolvable resource directory
backend_exe_path(rd) ==
    IF rd = None
    THEN [ panicked |-> TRUE, path |-> <<>> ]
    ELSE LET d == CHOOSE x \in rd : TRUE
         IN  [ panicked |-> FALSE, path |-> (d \o <<"bin">>) \o <<"lcai_api.exe">> ]

\* spawn_backend with the test of exe.exists() inverted
spawn_backend_inverted_exists(rd, fs, os) ==
    LET exe == backend_exe_path(rd) IN
    IF exe.panicked
    THEN [ panicked |-> TRUE, ret |-> None, spawned |-> <<>>, created |-> {},
           err |-> << [ msg |-> "resource_dir", path |-> <<>> ] >> ]
    ELSE IF exe.path \in fs
    THEN [ panicked |-> FALSE, ret |-> None, spawned |-> <<>>, created |-> {},
           err |-> << [ msg |-> "Backend exe not found at", path |-> exe.path ] >> ]
    ELSE [ panicked |-> FALSE,
           ret      |-> os,
           spawned  |-> << [ exe |-> exe.path, env |-> BackendEnv, result |-> os ] >>,
           created  |-> { [ pid |-> p, exe |-> exe.path, env |-> BackendEnv ] : p \in os },
           err      |-> <<>> ]

\* spawn_backend with cmd.spawn().expect("spawn") in place of cmd.spawn().ok()
spawn_backend_expect(rd, fs, os) ==
    LET exe == backend_exe_path(rd) IN
    IF exe.panicked
    THEN [ panicked |-> TRUE, ret |-> None, spawned |-> <<>>, created |-> {},
           err |-> << [ msg |-> "resource_dir", path |-> <<>> ] >> ]
    ELSE IF exe.path \notin fs
    THEN [ panicked |-> FALSE, ret |-> None, spawned |-> <<>>, created |-> {},
           err |-> << [ msg |-> "Backend exe not found at", path |-> exe.path ] >> ]
    ELSE [ panicked |-> os = None,
           ret      |-> os,
           spawned  |-> << [ exe |-> exe.path, env |-> BackendEnv, result |-> os ] >>,
           created  |-> { [ pid |-> p, exe |-> exe.path, env |-> BackendEnv ] : p \in os },
           err      |-> IF os = None
                        THEN << [ msg |-> "spawn", path |-> exe.path ] >>
                        ELSE <<>> ]

\* lines 12-25: what one call does, given the filesystem and the OS's answer
\* to Command::spawn (os), should the call get that far
spawn_backend(rd, fs, os) ==
    LET exe == backend_exe_path(rd) IN
    IF exe.panicked
    THEN [ panicked |-> TRUE, ret |-> None, spawned |-> <<>>, created |-> {},
           err |-> << [ msg |-> "resource_dir", path |-> <<>> ] >> ]
    ELSE IF exe.path \notin fs
    THEN [ panicked |-> FALSE, ret |-> None, spawned |-> <<>>, created |-> {},
           err |-> << [ msg |-> "Backend exe not found at", path |-> exe.path ] >> ]
    ELSE [ panicked |-> FALSE,
           ret      |-> os,
           spawned  |-> << [ exe |-> exe.path, env |-> BackendEnv, result |-> os ] >>,
           created  |-> { [ pid |-> p, exe |-> exe.path, env |-> BackendEnv ] : p \in os },
           err      |-> <<>> ]

\* Child::kill as the OS answers it: a running child is terminated, an exited
\* one is left as it is and the call answers Ok or Err
kill(p, res, os) ==
    [ os EXCEPT !.alive = os.alive \ {p},
                !.kill_calls = Append(os.kill_calls,
                    [ pid |-> p, was_alive |-> p \in os.alive, result |-> res ]) ]

\* drop that leaves the child to Child's own destructor, which kills nothing
drop_without_kill(self, res, os) == os

\* drop with self.0.as_mut().unwrap() in place of the if let
drop_unwrap(self, res, os) ==
    IF self # None
    THEN kill(CHOOSE p \in self : TRUE, res, os)
    ELSE [ os EXCEPT !.panicked = TRUE ]

\* drop with child.kill().unwrap() in place of let _ = child.kill()
drop_kill_unwrap(self, res, os) ==
    IF self # None
    THEN [ kill(CHOOSE p \in self : TRUE, res, os) EXCEPT !.panicked = (res = "Err") ]
    ELSE os

\* lines 48-54: BackendChild::drop on self.0 = self, the result of kill discarded
drop(self, res, os) ==
    IF self # None
    THEN kill(CHOOSE p \in self : TRUE, res, os)
    ELSE os

\* setup that first manages a placeholder BackendChild(None): the second
\* manage() of the same type is refused and its BackendChild dropped at once
setup_manage_twice ==
    /\ pc = "NotStarted"
    /\ \E os \in OsOutcomes :
         LET r == spawn_backend(resource_dir, files, os) IN
         /\ stderr' = stderr \o r.err
         /\ spawn_calls' = spawn_calls \o r.spawned
         /\ procs' = procs \cup r.created
         /\ IF r.panicked
            THEN /\ pc' = "Aborted"
                 /\ setup_result' = "Panic"
                 /\ managed' = managed
                 /\ UNCHANGED <<alive, kill_calls, drops>>
            ELSE LET after == drop(r.ret, "Ok",
                                   [ alive |-> alive \cup r.ret,
                                     kill_calls |-> kill_calls,
                                     panicked |-> FALSE ])
                 IN  /\ pc' = "Running"
                     /\ setup_result' = "Ok"
                     /\ managed' = << None >>
                     /\ alive' = after.alive
                     /\ kill_calls' = after.kill_calls
                     /\ drops' = drops + 1
    /\ UNCHANGED <<resource_dir, files, delivered, teardown_result, exit_cause>>

\* lines 29-37: the setup hook
setup ==
    /\ pc = "NotStarted"
    /\ \E os \in OsOutcomes :
         LET r == spawn_backend(resource_dir, files, os) IN
         /\ stderr' = stderr \o r.err
         /\ spawn_calls' = spawn_calls \o r.spawned
         /\ procs' = procs \cup r.created
         /\ alive' = alive \cup r.ret
         /\ IF r.panicked
            THEN /\ pc' = "Aborted"
                 /\ setup_result' = "Panic"
                 /\ managed' = managed
            ELSE /\ pc' = "Running"
                 /\ setup_result' = "Ok"
                 /\ managed' = << r.ret >>
    /\ UNCHANGED <<resource_dir, files, kill_calls, delivered, teardown_result,
                   drops, exit_cause>>

\* a handler that restarts the backend when the window regains focus and no
\* child is running
on_window_event_restart(ev) ==
    /\ ev \in WindowEvents
    /\ IF ev = "Focused" /\ alive = {}
       THEN \E os \in OsOutcomes :
              LET r == spawn_backend(resource_dir, files, os) IN
              /\ stderr' = stderr \o r.err
              /\ spawn_calls' = spawn_calls \o r.spawned
              /\ procs' = procs \cup r.created
              /\ alive' = alive \cup r.ret
              /\ managed' = << r.ret >>
       ELSE UNCHANGED <<managed, procs, alive, spawn_calls, stderr>>
    /\ UNCHANGED kill_calls

\* a handler that kills the backend as soon as the window is asked to close
on_window_event_kill_on_close(ev) ==
    /\ ev \in WindowEvents
    /\ IF ev = "CloseRequested" /\ Len(managed) = 1
       THEN LET after == drop(managed[1], "Ok",
                              [ alive |-> alive, kill_calls |-> kill_calls,
                                panicked |-> FALSE ])
            IN  /\ alive' = after.alive
                /\ kill_calls' = after.kill_calls
       ELSE UNCHANGED <<alive, kill_calls>>
    /\ UNCHANGED <<managed, procs, spawn_calls, stderr>>

\* lines 38-41: the window event handler
on_window_event(ev) ==
    /\ ev \in WindowEvents
    /\ UNCHANGED <<managed, procs, alive, spawn_calls, kill_calls, stderr>>

\* the answers Child::kill can give for the handle held
KillOutcomes(self) ==
    IF self \subseteq alive /\ self # None THEN { "Ok" } ELSE KillResults

OsState == [ alive |-> alive, kill_calls |-> kill_calls, panicked |-> FALSE ]

----------------------------------------------------------------------------
(* The Shell *)

\* the event loop hands a window event to the handler
WindowEvent ==
    /\ pc = "Running"
    /\ Len(delivered) < MaxWindowEvents
    /\ \E ev \in WindowEvents :
         /\ on_window_event(ev)
         /\ delivered' = Append(delivered, ev)
    /\ UNCHANGED <<pc, resource_dir, files, setup_result, teardown_result, drops,
                   exit_cause>>

\* the Shell leaves its event loop: the application exits, or its window was
\* closed and destroyed
RequestExit ==
    /\ pc = "Running"
    /\ \E cause \in { "normal_exit", "window_close" } :
         /\ cause = "window_close" =>
              /\ delivered # <<>>
              /\ delivered[Len(delivered)] = "Destroyed"
         /\ exit_cause' = cause
    /\ pc' = "Finalizing"
    /\ UNCHANGED <<resource_dir, files, managed, procs, alive, spawn_calls,
                   kill_calls, stderr, delivered, setup_result, teardown_result,
                   drops>>

\* the Shell tears its managed state down: the BackendChild is dropped
Teardown ==
    /\ pc = "Finalizing"
    /\ Len(managed) = 1
    /\ \E res \in KillOutcomes(managed[1]) :
         LET after == drop(managed[1], res, OsState) IN
         /\ alive' = after.alive
         /\ kill_calls' = after.kill_calls
         /\ teardown_result' = IF after.panicked THEN "Panic" ELSE "Ok"
    /\ drops' = drops + 1
    /\ managed' = <<>>
    /\ pc' = "Terminated"
    /\ UNCHANGED <<resource_dir, files, procs, spawn_calls, stderr, delivered,
                   setup_result, exit_cause>>

\* the backend process ends on its own
ChildExit ==
    /\ \E p \in alive : alive' = alive \ {p}
    /\ UNCHANGED <<pc, resource_dir, files, managed, procs, spawn_calls, kill_calls,
                   stderr, delivered, setup_result, teardown_result, drops,
                   exit_cause>>

Init ==
    /\ pc = "NotStarted"
    /\ resource_dir \in { None } \cup { Some(d) : d \in Dirs }
    /\ files \in SUBSET CandidatePaths
    /\ managed = <<>>
    /\ procs = {}
    /\ alive = {}
    /\ spawn_calls = <<>>
    /\ kill_calls = <<>>
    /\ stderr = <<>>
    /\ delivered = <<>>
    /\ setup_result = "Pending"
    /\ teardown_result = "Pending"
    /\ drops = 0
    /\ exit_cause = "none"

Next ==
    \/ setup
    \/ WindowEvent
    \/ RequestExit
    \/ Teardown
    \/ ChildExit

Spec == Init /\ [][Next]_vars

\* dropping the managed state is part of the Shell's finalization: once the
\* Shell finalizes, the drop is not postponed forever
FairSpec == Spec /\ WF_vars(Teardown)

----------------------------------------------------------------------------
(* What the launcher is expected to do, stated without the definitions above *)

ExpectedExe(d) == d \o <<"bin", "lcai_api.exe">>

ExpectedEnv == [ LCAI_PORT |-> "8787", LCAI_JWT_SECRET |-> "CHANGE_ME_DEV_ONLY" ]

ExePresent == \E d \in resource_dir : ExpectedExe(d) \in files

ExeMissing == \E d \in resource_dir : ExpectedExe(d) \notin files

\* the startup hook has run and the Shell has not yet torn its state down
Registered == pc \in { "Running", "Finalizing" }

SpawnRefused == \E i \in 1 .. Len(spawn_calls) : spawn_calls[i].result = None

KillsOf(p) == Cardinality({ i \in 1 .. Len(kill_calls) : kill_calls[i].pid = p })

----------------------------------------------------------------------------
\* C1: when the resource directory holds no executable at bin/lcai_api.exe,
\* the startup hook has spawned nothing, has written the diagnostic with the
\* path it tried, has registered an absent handle and returned Ok, and the
\* Shell is in (or past) its event loop, not aborted.
C1_MissingExeIsNotFatal ==
    \A d \in resource_dir :
        (ExpectedExe(d) \notin files /\ pc # "NotStarted") =>
            /\ setup_result = "Ok"
            /\ pc \in { "Running", "Finalizing", "Terminated" }
            /\ procs = {}
            /\ alive = {}
            /\ spawn_calls = <<>>
            /\ Registered => managed = << None >>
            /\ stderr = << [ msg |-> "Backend exe not found at",
                             path |-> ExpectedExe(d) ] >>

C1_Witness ==
    /\ ExeMissing
    /\ pc = "Running"
    /\ managed = << None >>
    /\ delivered # <<>>

\* C2 as stated: whenever the executable is present, after startup the handle
\* is present and a child with the configured environment exists, whatever
\* the OS answers to the spawn.
C2_Original ==
    \A d \in resource_dir :
        (ExpectedExe(d) \in files /\ Registered) =>
            \E p \in Pids :
                /\ managed = << Some(p) >>
                /\ [ pid |-> p, exe |-> ExpectedExe(d), env |-> ExpectedEnv ] \in procs

\* C2 as amended: whenever the executable is present, the startup hook asks the
\* OS once to spawn it with LCAI_PORT=8787 and the secret placeholder; the
\* handle registered is exactly what the OS answered, and the child processes
\* created are exactly that child, with that environment: a present handle and
\* one child if the OS created the process, no handle and no child if not.
C2_Amended ==
    \A d \in resource_dir :
        (ExpectedExe(d) \in files /\ Registered) =>
            /\ Len(spawn_calls) = 1
            /\ spawn_calls[1].exe = ExpectedExe(d)
            /\ spawn_calls[1].env = ExpectedEnv
            /\ managed = << spawn_calls[1].result >>
            /\ procs = { [ pid |-> p, exe |-> ExpectedExe(d), env |-> ExpectedEnv ] :
                           p \in spawn_calls[1].result }

C2_Witness ==
    /\ ExePresent
    /\ pc = "Running"
    /\ \E p \in Pids :
         /\ managed = << Some(p) >>
         /\ p \in alive
         /\ \E c \in procs : c.pid = p /\ c.env.LCAI_PORT = "8787"

C4_TeardownOnceAfterSpawn ==
    /\ drops <= 1
    /\ drops > 0 => setup_result = "Ok"
    /\ kill_calls # <<>> => (setup_result = "Ok" /\ Len(spawn_calls) = 1 /\ drops = 1)
    /\ Len(kill_calls) <= drops

C4_Witness ==
    /\ pc = "Terminated"
    /\ drops = 1
    /\ Len(kill_calls) = 1

\* C5: when the resource directory cannot be determined, startup aborts: no
\* spawn is attempted, no child exists, nothing is registered in the managed
\* state, no window event is ever handled and no teardown runs.
C5_UnresolvableDirAborts ==
    (resource_dir = None /\ pc # "NotStarted") =>
        /\ pc = "Aborted"
        /\ setup_result = "Panic"
        /\ spawn_calls = <<>>
        /\ procs = {}
        /\ managed = <<>>
        /\ delivered = <<>>
        /\ drops = 0
        /\ kill_calls = <<>>

C5_Witness ==
    /\ resource_dir = None
    /\ pc = "Aborted"
    /\ <<"bin", "lcai_api.exe">> \in files

\* C6: at most one handle is registered, the OS is asked at most once to spawn
\* and at most one child process has ever been created, also after the child
\* has exited or the spawn has failed.
C6_AtMostOneBackend ==
    /\ Len(managed) <= 1
    /\ \A i \in 1 .. Len(managed) : Cardinality(managed[i]) <= 1
    /\ Len(spawn_calls) <= 1
    /\ Cardinality(procs) <= 1
    /\ Cardinality(alive) <= 1

C6_Witness ==
    /\ pc = "Running"
    /\ Cardinality(procs) = 1
    /\ alive = {}
    /\ \E i \in 1 .. Len(delivered) : delivered[i] = "Focused"

\* C7: the teardown of an absent handle sends no signal, changes no process,
\* writes nothing, ends normally, and running the drop again on the state it
\* leaves changes nothing.
C7_TeardownWithoutHandleIsNoOp ==
    [][ (pc = "Finalizing" /\ managed = << None >> /\ pc' = "Terminated") =>
            /\ kill_calls' = kill_calls
            /\ alive' = alive
            /\ procs' = procs
            /\ stderr' = stderr
            /\ teardown_result' = "Ok"
            /\ \A res \in KillResults :
                 LET post == [ alive |-> alive', kill_calls |-> kill_calls',
                               panicked |-> FALSE ]
                 IN  drop(None, res, post) = post ]_vars

C7_Witness ==
    /\ pc = "Terminated"
    /\ drops = 1
    /\ procs = {}
    /\ kill_calls = <<>>
    /\ teardown_result = "Ok"

\* C8: when the OS refuses the spawn, nothing is written, the startup hook
\* returns Ok with an absent handle registered, the application runs on, and
\* neither then nor at teardown is any termination signal sent.
C8_SpawnFailureAbsorbed ==
    SpawnRefused =>
        /\ setup_result = "Ok"
        /\ pc \in { "Running", "Finalizing", "Terminated" }
        /\ Registered => managed = << None >>
        /\ procs = {}
        /\ stderr = <<>>
        /\ kill_calls = <<>>
        /\ pc = "Terminated" => teardown_result = "Ok"

C8_Witness ==
    /\ SpawnRefused
    /\ ExePresent
    /\ pc = "Terminated"
    /\ drops = 1

\* C9: a kill sent to a child that had already exited is the only kill ever
\* sent; whatever it answers, the teardown it belongs to has ended normally.
C9_KillFailureIgnored ==
    \A i \in 1 .. Len(kill_calls) :
        ~ kill_calls[i].was_alive =>
            /\ Len(kill_calls) = 1
            /\ drops = 1
            /\ pc = "Terminated"
            /\ teardown_result = "Ok"
            /\ managed = <<>>

C9_Witness ==
    /\ pc = "Terminated"
    /\ Len(kill_calls) = 1
    /\ ~ kill_calls[1].was_alive
    /\ kill_calls[1].result = "Err"
    /\ teardown_result = "Ok"

\* C10: every step taken while the Shell stays in its event loop (a window
\* event handled, the child exiting on its own) leaves the registered handle,
\* the processes created, the spawns asked for and the signals sent unchanged.
C10_OnlyStartupAndTeardownAct ==
    [][ (pc = "Running" /\ pc' = "Running") =>
            /\ managed' = managed
            /\ procs' = procs
            /\ spawn_calls' = spawn_calls
            /\ kill_calls' = kill_calls
            /\ stderr' = stderr ]_vars

C10_Witness ==
    /\ pc = "Running"
    /\ \E i \in 1 .. Len(delivered) : delivered[i] = "CloseRequested"
    /\ \E p \in Pids : managed = << Some(p) >> /\ p \notin alive
    /\ kill_calls = <<>>

====
